---- MODULE Spec2Model ----
(***************************************************************************)
(* The real-time ingestion and fan-out pipeline of the inventory-manager   *)
(* dashboard: SocketProvider (connection state, message log, sendMessage), *)
(* App (active tab, alert ring) and the message effects of the four panels *)
(* (Dashboard, AgentStatus, InventoryView, SustainabilityMetrics).         *)
(*                                                                         *)
(* JavaScript runs one handler at a time, so each transport callback and   *)
(* each user handler is one action.  A panel's message effect walks the    *)
(* log with messages.forEach; the walk is modelled one log entry per step  *)
(* (variable scan), and no handler runs while a walk is in progress.  Only *)
(* the wall clock (Date.now / new Date) may advance during a walk.         *)
(*                                                                         *)
(* A message effect runs again whenever one of its dependencies changed in *)
(* the last render (variable effect): "stale" says a dependency changed    *)
(* and the render is not committed yet, "due" says the render is committed *)
(* and the effect is pending.  React runs a pending effect before the next *)
(* handler, so handlers wait while the effect is "due".  addAlert is a new *)
(* function on every render of App, so every change of `alerts` makes the  *)
(* effects that list addAlert stale.                                       *)
(*                                                                         *)
(* SpecLog, SpecSend, SpecRing, SpecInventory, SpecAgents, SpecMetrics,    *)
(* SpecSustainability and SpecPayload each drive a part of the             *)
(* application; SpecFrame drives all of its handlers with one payload per  *)
(* event name, and Spec is the whole of it.  SpecRingFair adds the         *)
(* scheduling of renders and effects to SpecRing.                          *)
(***************************************************************************)
EXTENDS Naturals, Integers, Sequences, FiniteSets, TLC

VARIABLES
    socket,         \* the transport made by io(...): "open" | "closed"
    connected,      \* SocketProvider state `connected`
    messages,       \* SocketProvider state `messages` (the event log)
    delivered,      \* history: the kinds the transport pushed, in delivery order
    emitted,        \* history: the socket.emit calls made on the transport
    sendCalls,      \* history: the sendMessage calls, with `connected` at the call
    signals,        \* history: the connect and disconnect signals of the transport
    now,            \* the wall clock read by Date.now() and new Date()
    activeTab,      \* App state `activeTab`
    alerts,         \* App state `alerts` (the alert ring)
    metrics,        \* Dashboard state `metrics`
    inventory,      \* InventoryView state `inventory`
    agents,         \* AgentStatus state `agents`
    recentMessages, \* AgentStatus state `recentMessages`
    sustainabilityData, \* SustainabilityMetrics state
    showReorderModal,   \* InventoryView state `showReorderModal`
    selectedSKU,        \* InventoryView state `selectedSKU`
    reorderQuantity,    \* InventoryView state `reorderQuantity`
    effect,         \* the mounted panel's message effect: "idle" | "stale" | "due"
    scan,           \* 0, or the index of the log entry the running effect handles next
    userActions,    \* history: number of user interactions so far
    error           \* an effect threw an exception nobody caught

vars == <<socket, connected, messages, delivered, emitted, sendCalls, signals, now,
          activeTab, alerts, metrics, inventory, agents, recentMessages,
          sustainabilityData, showReorderModal, selectedSKU, reorderQuantity,
          effect, scan, userActions, error>>

\* the reorder dialog of the inventory panel
dialog == <<showReorderModal, selectedSKU, reorderQuantity>>

----------------------------------------------------------------------------
(* Bounds of the model *)

MaxInputs == 4        \* signals, pushed events, user actions and clock ticks in one run
StartTime == 3        \* the clock at mount (Date.now() is far above the ids 1 and 2)
MaxProcessed == 47    \* cap of an agent's messagesProcessed counter

(* Program constants *)

RingKeep == 9         \* prev.slice(0, 9) in addAlert
RecentKeep == 9       \* prev.slice(0, 9) in setRecentMessages

----------------------------------------------------------------------------
(* JavaScript object helpers *)

Min(a, b) == IF a <= b THEN a ELSE b

\* { ...a, ...b } : the fields of a overlaid with the fields of b
Spread(a, b) ==
    [k \in (DOMAIN a) \cup (DOMAIN b) |-> IF k \in DOMAIN b THEN b[k] ELSE a[k]]

\* the object with no fields (what spreading undefined yields)
EmptyObj == [k \in {} |-> 0]

\* arr.slice(0, n)
Slice0(arr, n) == SubSeq(arr, 1, Min(n, Len(arr)))

----------------------------------------------------------------------------
(* The transport's events *)

\* the event names the server pushes
InboundKinds ==
    {"inventory_update", "agent_message", "optimization_result",
     "system_metrics", "sustainability_update"}

\* the event names SocketProvider registers a listener for (newSocket.on)
ListenedKinds ==
    {"inventory_update", "agent_message", "optimization_result", "system_metrics"}

SKUs == {"SKU001", "SKU999"}
Warehouses == {"north"}
Stocks == {10, 20}

\* an update that takes SKU003 down to its minimum stock (3 + 0 + 2 <= 5)
LowStockUpdate ==
    [sku_id |-> "SKU003", warehouse_id |-> "central", current_stock |-> 0]

\* the payloads the server sends with each event name
Payloads(kind) ==
    CASE kind = "inventory_update" ->
           [sku_id : SKUs, warehouse_id : Warehouses, current_stock : Stocks]
               \cup {LowStockUpdate}
      [] kind = "agent_message" ->
           [from_agent : {"DEMAND", "SUPPLY", "UNKNOWN", "constructor"}, to_agent : {"supply"},
            message_type : {"demand_forecast"}, content : {"spike"}]
      [] kind = "optimization_result" -> [sku_id : {"SKU001"}]
      [] kind = "system_metrics" -> [serviceLevel : {97, 99}]
      [] kind = "sustainability_update" -> [carbonReduction : {15}]

\* the value undefined, written as a record so that it can stand where a
\* payload stands
Undefined == [undefined |-> TRUE]

\* an event pushed with no payload reaches the listener with data undefined
Malformed(kind) == {Undefined}

AnyPayload(kind) == Payloads(kind) \cup Malformed(kind)

\* the fields an object spread copies: none for undefined
OwnFields(data) == IF data = Undefined THEN EmptyObj ELSE data

\* a variant of appendMessage that skips an event equal to one already logged
appendMessage_Dedup(prev, kind, data, t) ==
    IF \E i \in 1..Len(prev) : prev[i].type = kind /\ prev[i].data = data
    THEN prev
    ELSE Append(prev, [type |-> kind, data |-> data, timestamp |-> t])

\* setMessages(prev => [...prev, { type, data, timestamp: new Date() }])
appendMessage(prev, kind, data, t) ==
    Append(prev, [type |-> kind, data |-> data, timestamp |-> t])

\* socket.io calls the listeners registered for the event name, if any
dispatch(prev, kind, data, t) ==
    IF kind \in ListenedKinds THEN appendMessage(prev, kind, data, t) ELSE prev

\* a variant of sendMessage that tests the socket but not `connected`
sendMessage_SocketOnly(sock, conn, out, event, data) ==
    IF sock # "none"
    THEN Append(out, [event |-> event, data |-> data])
    ELSE out

\* a variant of sendMessage that emits the event name without its payload
sendMessage_NoPayload(sock, conn, out, event, data) ==
    IF sock # "none" /\ conn
    THEN Append(out, [event |-> event, data |-> EmptyObj])
    ELSE out

\* sendMessage: emits only with a socket and while connected
sendMessage(sock, conn, out, event, data) ==
    IF sock # "none" /\ conn
    THEN Append(out, [event |-> event, data |-> data])
    ELSE out

----------------------------------------------------------------------------
(* App: the alert ring *)

InitialAlerts(t) ==
    << [id |-> 1, type |-> "info",
        message |-> <<"System initialized successfully">>, timestamp |-> t],
       [id |-> 2, type |-> "warning",
        message |-> <<"Demand spike detected for SKU001">>, timestamp |-> t] >>

\* a variant of addAlert that keeps ten of the previous alerts: slice(0, 10)
addAlert_Keep10(prev, type, message, t) ==
    <<[id |-> t, type |-> type, message |-> message, timestamp |-> t]>>
        \o Slice0(prev, RingKeep + 1)

\* a variant of addAlert that puts the new alert behind the previous ones
addAlert_AtEnd(prev, type, message, t) ==
    Slice0(prev, RingKeep)
        \o <<[id |-> t, type |-> type, message |-> message, timestamp |-> t]>>

\* addAlert: the new alert first, then the first nine of the previous ones
addAlert(prev, type, message, t) ==
    <<[id |-> t, type |-> type, message |-> message, timestamp |-> t]>>
        \o Slice0(prev, RingKeep)

\* a variant of removeAlert that filters on the array index instead of the id
removeAlert_ByIndex(prev, id) ==
    IF id + 1 \in 1..Len(prev)
    THEN SubSeq(prev, 1, id) \o SubSeq(prev, id + 2, Len(prev))
    ELSE prev

\* removeAlert: prev.filter(alert => alert.id !== id)
removeAlert(prev, id) == SelectSeq(prev, LAMBDA alert : alert.id # id)

AlertIds(ring) == {ring[i].id : i \in 1..Len(ring)}

Tabs == {"dashboard", "agents", "inventory", "sustainability"}

\* the panels whose message effect lists addAlert among its dependencies
AddAlertDeps == {"dashboard", "inventory", "sustainability"}

----------------------------------------------------------------------------
(* Dashboard *)

InitialMetrics ==
    [totalInventoryValue |-> 125000, totalCarbonFootprint |-> 2450,
     serviceLevel |-> 94, stockoutIncidents |-> 3, overstockIncidents |-> 7,
     costEfficiency |-> 87, agentCommunicationVolume |-> 156,
     optimizationCyclesCompleted |-> 42]

\* a variant of mergeMetrics that adds the pushed figures to the shown ones
mergeMetrics_Add(prev, data) ==
    [k \in DOMAIN prev |->
        IF k \in DOMAIN OwnFields(data) THEN prev[k] + data[k] ELSE prev[k]]

\* setMetrics(prev => ({ ...prev, ...message.data }))
mergeMetrics(prev, data) == Spread(prev, OwnFields(data))

DashboardCommands ==
    { [event |-> "simulate_demand_spike",
       data |-> [sku_id |-> "SKU001", multiplier |-> "2.5", duration_hours |-> 24],
       type |-> "warning", message |-> <<"Simulating demand spike for SKU001">>],
      [event |-> "simulate_delay",
       data |-> [supplier_id |-> "SUP001", delay_days |-> 3],
       type |-> "warning", message |-> <<"Simulating supplier delay for SUP001">>],
      [event |-> "trigger_optimization",
       data |-> EmptyObj,
       type |-> "info", message |-> <<"Triggering system-wide optimization cycle">>] }

----------------------------------------------------------------------------
(* InventoryView *)

sampleInventory ==
    [SKU001 |-> [name |-> "Premium Widget", category |-> "Electronics",
                 unitCost |-> 25,
                 currentStock |-> [north |-> 45, central |-> 78, south |-> 23],
                 minStock |-> 20, maxStock |-> 200, demandRate |-> 5,
                 status |-> "normal"],
     SKU002 |-> [name |-> "Basic Component", category |-> "Hardware",
                 unitCost |-> 12,
                 currentStock |-> [north |-> 156, central |-> 234, south |-> 89],
                 minStock |-> 30, maxStock |-> 300, demandRate |-> 8,
                 status |-> "normal"],
     SKU003 |-> [name |-> "Luxury Item", category |-> "Premium",
                 unitCost |-> 150,
                 currentStock |-> [north |-> 3, central |-> 7, south |-> 2],
                 minStock |-> 5, maxStock |-> 50, demandRate |-> 2,
                 status |-> "low_stock"],
     SKU004 |-> [name |-> "Standard Part", category |-> "Mechanical",
                 unitCost |-> 8,
                 currentStock |-> [north |-> 234, central |-> 345, south |-> 156],
                 minStock |-> 40, maxStock |-> 400, demandRate |-> 10,
                 status |-> "normal"],
     SKU005 |-> [name |-> "Specialty Tool", category |-> "Tools",
                 unitCost |-> 75,
                 currentStock |-> [north |-> 67, central |-> 89, south |-> 45],
                 minStock |-> 10, maxStock |-> 100, demandRate |-> 3,
                 status |-> "normal"]]

\* prev[sku], or the empty object when prev has no such key (spread of undefined)
entryOf(prev, sku) == IF sku \in DOMAIN prev THEN prev[sku] ELSE EmptyObj

\* prev[sku]?.currentStock, or the empty object
stockOf(prev, sku) ==
    IF "currentStock" \in DOMAIN entryOf(prev, sku)
    THEN entryOf(prev, sku).currentStock
    ELSE EmptyObj

\* a variant of mergeInventory that ignores a SKU it does not know
mergeInventory_KnownOnly(prev, data) ==
    IF data.sku_id \in DOMAIN prev
    THEN Spread(prev,
                data.sku_id :>
                    Spread(prev[data.sku_id],
                           [currentStock |->
                               Spread(prev[data.sku_id].currentStock,
                                      data.warehouse_id :> data.current_stock)]))
    ELSE prev

\* a variant of mergeInventory that stores the update in place of the entry
mergeInventory_Replace(prev, data) ==
    Spread(prev,
           data.sku_id :>
               [currentStock |-> (data.warehouse_id :> data.current_stock)])

\* the updater of the inventory_update branch of the message effect
mergeInventory(prev, data) ==
    Spread(prev,
           data.sku_id :>
               Spread(entryOf(prev, data.sku_id),
                      [currentStock |->
                          Spread(stockOf(prev, data.sku_id),
                                 data.warehouse_id :> data.current_stock)]))

\* useState(null) for selectedSKU
NoSKU == "null"

\* what the quantity field of the dialog can be set to: parseInt(value) || 0
Quantities == {-5, 0, 7}

\* the sum of the values of an object
RECURSIVE SumValues(_)
SumValues(obj) ==
    IF DOMAIN obj = {} THEN 0
    ELSE LET k == CHOOSE x \in DOMAIN obj : TRUE IN
         obj[k] + SumValues([x \in (DOMAIN obj) \ {k} |-> obj[x]])

\* getTotalStock(sku): Object.values(sku.currentStock).reduce(...)
getTotalStock(sku) == SumValues(sku.currentStock)

\* the Reorder button is rendered for a SKU whose overallStatus is low_stock;
\* totalStock <= undefined is false
lowStock(sku) ==
    /\ "minStock" \in DOMAIN sku
    /\ getTotalStock(sku) <= sku.minStock

reorderAlert(sku, quantity) ==
    <<"Reorder request sent for", sku, ":", ToString(quantity), "units">>

inventoryAlert(data) ==
    <<"Inventory updated for", data.sku_id, "in", data.warehouse_id>>

----------------------------------------------------------------------------
(* SustainabilityMetrics *)

InitialSustainability ==
    [totalCarbonFootprint |-> 2450, carbonReduction |-> 12,
     sustainableSuppliers |-> 3, totalSuppliers |-> 4,
     renewableEnergyUsage |-> 78, wasteReduction |-> 23, localSourcing |-> 65]

\* setSustainabilityData(prev => ({ ...prev, ...message.data }))
mergeSustainability(prev, data) == Spread(prev, OwnFields(data))

----------------------------------------------------------------------------
(* AgentStatus *)
\* (ratios such as confidence: 0.87 are written in hundredths)
InitialAgents(t) ==
    [demand |-> [name |-> "Demand Agent", status |-> "active",
                 lastActivity |-> t, messagesProcessed |-> 45,
                 forecastsGenerated |-> 12, confidence |-> 87,
                 color |-> "#28a745"],
     supply |-> [name |-> "Supply Agent", status |-> "active",
                 lastActivity |-> t, ordersProcessed |-> 23,
                 suppliersMonitored |-> 4, reliability |-> 92,
                 color |-> "#007bff"],
     logistics |-> [name |-> "Logistics Agent", status |-> "active",
                    lastActivity |-> t, shipmentsOptimized |-> 18,
                    routesCalculated |-> 156, efficiency |-> 89,
                    color |-> "#ffc107"],
     negotiation |-> [name |-> "Negotiation Agent", status |-> "active",
                      lastActivity |-> t, negotiationsCompleted |-> 7,
                      costSavings |-> 12500, successRate |-> 85,
                      color |-> "#dc3545"]]

InitialRecentMessages(t) ==
    << [id |-> 1, from |-> "demand", to |-> "supply", type |-> "demand_forecast",
        content |-> <<"Forecast spike for SKU001 - 150% increase expected">>,
        timestamp |-> t - 2 * 60 * 1000],
       [id |-> 2, from |-> "supply", to |-> "negotiation", type |-> "supply_alert",
        content |-> <<"Low stock alert for SKU003 - immediate reorder needed">>,
        timestamp |-> t - 5 * 60 * 1000],
       [id |-> 3, from |-> "logistics", to |-> "supply", type |-> "logistics_request",
        content |-> <<"Proposing inventory transfer from North to South warehouse">>,
        timestamp |-> t - 8 * 60 * 1000],
       [id |-> 4, from |-> "negotiation", to |-> "supply", type |-> "negotiation_offer",
        content |-> <<"Secured 15% discount from SUP002 for bulk order">>,
        timestamp |-> t - 12 * 60 * 1000] >>

\* String.prototype.toLowerCase on the agent names the server uses
toLowerCase(s) ==
    CASE s = "DEMAND" -> "demand"
      [] s = "SUPPLY" -> "supply"
      [] s = "UNKNOWN" -> "unknown"
      [] OTHER -> s

\* the four keys of the initial agents object
AgentKeys == {"demand", "supply", "logistics", "negotiation"}

\* the lower-case property names every object inherits from Object.prototype
\* with a truthy value
InheritedKeys == {"constructor", "__proto__"}

\* agentKey && agents[agentKey]: a property read finds own and inherited
\* properties alike
knownAgent(ags, data) ==
    toLowerCase(data.from_agent) \in (DOMAIN ags) \cup InheritedKeys

\* undefined + 1 is NaN, and NaN + 1 is NaN; NaN is written as -1
NaN == -1

\* prev[agentKey].messagesProcessed + 1
bumpProcessed(agent) ==
    IF "messagesProcessed" \in DOMAIN agent
    THEN IF agent.messagesProcessed = NaN THEN NaN
         ELSE agent.messagesProcessed + 1
    ELSE NaN

\* the setAgents updater; spreading an inherited value (a function, the
\* prototype object) copies no field
touchAgent(prev, key, t) ==
    Spread(prev,
           key :> Spread(entryOf(prev, key),
                         [lastActivity |-> t,
                          messagesProcessed |-> bumpProcessed(entryOf(prev, key))]))

\* JSON.stringify(data.content).substring(0, 100) + '...'
contentPreview(content) == <<"\"", content, "\"", "...">>

\* a variant of pushRecent that keeps ten of the previous entries: slice(0, 10)
pushRecent_Keep10(prev, data, t) ==
    <<[id |-> t, from |-> data.from_agent, to |-> data.to_agent,
       type |-> data.message_type, content |-> contentPreview(data.content),
       timestamp |-> t]>>
        \o Slice0(prev, RecentKeep + 1)

\* setRecentMessages(prev => [newMessage, ...prev.slice(0, 9)])
pushRecent(prev, data, t) ==
    <<[id |-> t, from |-> data.from_agent, to |-> data.to_agent,
       type |-> data.message_type, content |-> contentPreview(data.content),
       timestamp |-> t]>>
        \o Slice0(prev, RecentKeep)

----------------------------------------------------------------------------
(* The state machine *)

Init ==
    /\ socket = "open"
    /\ connected = FALSE
    /\ messages = <<>>
    /\ delivered = <<>>
    /\ emitted = <<>>
    /\ sendCalls = <<>>
    /\ signals = <<>>
    /\ now = StartTime
    /\ activeTab = "dashboard"
    /\ alerts = InitialAlerts(StartTime)
    /\ metrics = InitialMetrics
    /\ inventory = EmptyObj
    /\ agents = EmptyObj
    /\ recentMessages = <<>>
    /\ sustainabilityData = EmptyObj
    /\ showReorderModal = FALSE
    /\ selectedSKU = NoSKU
    /\ reorderQuantity = 0
    /\ effect = "idle"
    /\ scan = 0
    /\ userActions = 0
    /\ error = FALSE

\* what the environment has fed the application so far
Inputs == Len(delivered) + Len(signals) + userActions + (now - StartTime)

\* a handler may run: the transport is open, no effect is running or pending
Idle == socket = "open" /\ scan = 0 /\ effect # "due"

\* the message effect of every panel depends on `messages`
AfterAppRender == IF activeTab \in AddAlertDeps THEN "stale" ELSE effect

\* the wall clock advances
Tick ==
    /\ socket = "open"
    /\ Inputs < MaxInputs
    /\ now' = now + 1
    /\ UNCHANGED <<dialog, error, signals, socket, connected, messages, delivered, emitted, sendCalls,
                   activeTab, alerts, metrics, inventory, agents, recentMessages,
                   sustainabilityData, effect, scan, userActions>>

\* newSocket.on('connect', ...)
OnConnect ==
    /\ Idle
    /\ Inputs < MaxInputs
    /\ connected' = TRUE
    /\ signals' = Append(signals, "connect")
    /\ UNCHANGED <<dialog, error, socket, messages, delivered, emitted, sendCalls, now,
                   activeTab, alerts, metrics, inventory, agents, recentMessages,
                   sustainabilityData, effect, scan, userActions>>

\* a variant of the disconnect handler that also records the loss in the log
OnDisconnect_Logged ==
    /\ Idle
    /\ Inputs < MaxInputs
    /\ connected
    /\ connected' = FALSE
    /\ signals' = Append(signals, "disconnect")
    /\ messages' = appendMessage(messages, "disconnect", EmptyObj, now)
    /\ UNCHANGED <<dialog, error, socket, delivered, emitted, sendCalls, now,
                   activeTab, alerts, metrics, inventory, agents, recentMessages,
                   sustainabilityData, effect, scan, userActions>>

\* newSocket.on('disconnect', ...)
OnDisconnect ==
    /\ Idle
    /\ Inputs < MaxInputs
    /\ connected
    /\ connected' = FALSE
    /\ signals' = Append(signals, "disconnect")
    /\ UNCHANGED <<dialog, error, socket, messages, delivered, emitted, sendCalls, now,
                   activeTab, alerts, metrics, inventory, agents, recentMessages,
                   sustainabilityData, effect, scan, userActions>>

\* the server pushes an event; socket.io hands it to the listeners of its name
OnEvent(kind, data) ==
    /\ Idle
    /\ connected
    /\ Inputs < MaxInputs
    /\ delivered' = Append(delivered, kind)
    /\ messages' = dispatch(messages, kind, data, now)
    /\ effect' = IF messages' # messages THEN "stale" ELSE effect
    /\ UNCHANGED <<dialog, error, signals, socket, connected, emitted, sendCalls, now,
                   activeTab, alerts, metrics, inventory, agents, recentMessages,
                   sustainabilityData, scan, userActions>>

\* a variant of the cleanup that closes the transport only while connected
Unmount_WhenConnected ==
    /\ Idle
    /\ connected
    /\ socket' = "closed"
    /\ UNCHANGED <<dialog, error, signals, connected, messages, delivered, emitted, sendCalls, now,
                   activeTab, alerts, metrics, inventory, agents, recentMessages,
                   sustainabilityData, effect, scan, userActions>>

\* the cleanup of the mount effect: newSocket.close()
Unmount ==
    /\ Idle
    /\ socket' = "closed"
    /\ UNCHANGED <<dialog, error, signals, connected, messages, delivered, emitted, sendCalls, now,
                   activeTab, alerts, metrics, inventory, agents, recentMessages,
                   sustainabilityData, effect, scan, userActions>>

\* a variant of the tab switch whose new panel waits for the next event before
\* it looks at the log
SetActiveTab_NoReplay(tab) ==
    /\ Idle
    /\ Inputs < MaxInputs
    /\ tab # activeTab
    /\ activeTab' = tab
    /\ metrics' = IF tab = "dashboard" THEN InitialMetrics ELSE EmptyObj
    /\ inventory' = IF tab = "inventory" THEN sampleInventory ELSE EmptyObj
    /\ agents' = IF tab = "agents" THEN InitialAgents(now) ELSE EmptyObj
    /\ recentMessages' = IF tab = "agents" THEN InitialRecentMessages(now) ELSE <<>>
    /\ sustainabilityData' =
           IF tab = "sustainability" THEN InitialSustainability ELSE EmptyObj
    /\ effect' = "idle"
    /\ showReorderModal' = FALSE
    /\ selectedSKU' = NoSKU
    /\ reorderQuantity' = 0
    /\ userActions' = userActions + 1
    /\ UNCHANGED <<error, signals, socket, connected, messages, delivered,
                   emitted, sendCalls, now, alerts, scan>>

\* a sidebar link: setActiveTab(tab); the panel of the old tab is unmounted and
\* the panel of the new tab is mounted with its initial state, its fixture
\* effect runs and its message effect is pending
SetActiveTab(tab) ==
    /\ Idle
    /\ Inputs < MaxInputs
    /\ tab # activeTab
    /\ activeTab' = tab
    /\ metrics' = IF tab = "dashboard" THEN InitialMetrics ELSE EmptyObj
    /\ inventory' = IF tab = "inventory" THEN sampleInventory ELSE EmptyObj
    /\ agents' = IF tab = "agents" THEN InitialAgents(now) ELSE EmptyObj
    /\ recentMessages' = IF tab = "agents" THEN InitialRecentMessages(now) ELSE <<>>
    /\ sustainabilityData' =
           IF tab = "sustainability" THEN InitialSustainability ELSE EmptyObj
    /\ effect' = "due"
    /\ showReorderModal' = FALSE
    /\ selectedSKU' = NoSKU
    /\ reorderQuantity' = 0
    /\ userActions' = userActions + 1
    /\ UNCHANGED <<error, signals, socket, connected, messages, delivered,
                   emitted, sendCalls, now, alerts, scan>>

\* the close button of an alert: removeAlert(id)
RemoveAlert(id) ==
    /\ Idle
    /\ Inputs < MaxInputs
    /\ alerts' = removeAlert(alerts, id)
    /\ effect' = AfterAppRender
    /\ userActions' = userActions + 1
    /\ UNCHANGED <<dialog, error, signals, socket, connected, messages, delivered, emitted, sendCalls,
                   now, activeTab, metrics, inventory, agents, recentMessages,
                   sustainabilityData, scan>>

\* a variant of the command buttons that marks the connection as up
DashboardCommand_Connects(c) ==
    /\ Idle
    /\ Inputs < MaxInputs
    /\ activeTab = "dashboard"
    /\ connected' = TRUE
    /\ emitted' = sendMessage(socket, connected, emitted, c.event, c.data)
    /\ sendCalls' = Append(sendCalls, [event |-> c.event, data |-> c.data,
                                       connected |-> connected])
    /\ alerts' = addAlert(alerts, c.type, c.message, now)
    /\ effect' = AfterAppRender
    /\ userActions' = userActions + 1
    /\ UNCHANGED <<dialog, error, signals, socket, messages, delivered, now, activeTab,
                   metrics, inventory, agents, recentMessages,
                   sustainabilityData, scan>>

\* a variant of the command buttons that reports only what was really sent
DashboardCommand_QuietOffline(c) ==
    /\ Idle
    /\ Inputs < MaxInputs
    /\ activeTab = "dashboard"
    /\ emitted' = sendMessage(socket, connected, emitted, c.event, c.data)
    /\ sendCalls' = Append(sendCalls, [event |-> c.event, data |-> c.data,
                                       connected |-> connected])
    /\ alerts' = IF connected THEN addAlert(alerts, c.type, c.message, now)
                 ELSE alerts
    /\ effect' = AfterAppRender
    /\ userActions' = userActions + 1
    /\ UNCHANGED <<dialog, error, signals, socket, connected, messages, delivered, now,
                   activeTab, metrics, inventory, agents, recentMessages,
                   sustainabilityData, scan>>

\* simulateDemandSpike, simulateDelay, triggerOptimization
DashboardCommand(c) ==
    /\ Idle
    /\ Inputs < MaxInputs
    /\ activeTab = "dashboard"
    /\ emitted' = sendMessage(socket, connected, emitted, c.event, c.data)
    /\ sendCalls' = Append(sendCalls, [event |-> c.event, data |-> c.data,
                                       connected |-> connected])
    /\ alerts' = addAlert(alerts, c.type, c.message, now)
    /\ effect' = AfterAppRender
    /\ userActions' = userActions + 1
    /\ UNCHANGED <<dialog, error, signals, socket, connected, messages, delivered, now, activeTab,
                   metrics, inventory, agents, recentMessages,
                   sustainabilityData, scan>>

\* the Reorder button of a table row: handleReorder(skuId); the open dialog
\* covers the table
HandleReorder(skuId) ==
    /\ Idle
    /\ activeTab = "inventory"
    /\ ~showReorderModal
    /\ skuId \in DOMAIN inventory
    /\ lowStock(inventory[skuId])
    /\ selectedSKU' = skuId
    /\ reorderQuantity' = inventory[skuId].minStock * 2
    /\ showReorderModal' = TRUE
    /\ UNCHANGED <<error, signals, socket, connected, messages, delivered,
                   emitted, sendCalls, now, activeTab, alerts, metrics,
                   inventory, agents, recentMessages, sustainabilityData,
                   effect, scan, userActions>>

\* the quantity field of the dialog: setReorderQuantity(parseInt(value) || 0)
SetReorderQuantity(q) ==
    /\ Idle
    /\ activeTab = "inventory"
    /\ showReorderModal
    /\ q # reorderQuantity
    /\ reorderQuantity' = q
    /\ UNCHANGED <<showReorderModal, selectedSKU>>
    /\ UNCHANGED <<error, signals, socket, connected, messages, delivered,
                   emitted, sendCalls, now, activeTab, alerts, metrics,
                   inventory, agents, recentMessages, sustainabilityData,
                   effect, scan, userActions>>

\* Cancel and onHide: setShowReorderModal(false)
HideReorderModal ==
    /\ Idle
    /\ activeTab = "inventory"
    /\ showReorderModal
    /\ showReorderModal' = FALSE
    /\ UNCHANGED <<selectedSKU, reorderQuantity>>
    /\ UNCHANGED <<error, signals, socket, connected, messages, delivered,
                   emitted, sendCalls, now, activeTab, alerts, metrics,
                   inventory, agents, recentMessages, sustainabilityData,
                   effect, scan, userActions>>

\* a variant of confirmReorder that does not look at the quantity
ConfirmReorder_AnyQuantity ==
    /\ Idle
    /\ Inputs < MaxInputs
    /\ activeTab = "inventory"
    /\ showReorderModal
    /\ LET data == [sku_id |-> selectedSKU, quantity |-> reorderQuantity,
                    priority |-> "high"] IN
       /\ emitted' = sendMessage(socket, connected, emitted, "create_reorder", data)
       /\ sendCalls' = Append(sendCalls, [event |-> "create_reorder",
                                          data |-> data, connected |-> connected])
       /\ alerts' = addAlert(alerts, "success",
                             reorderAlert(selectedSKU, reorderQuantity), now)
       /\ showReorderModal' = FALSE
       /\ effect' = AfterAppRender
    /\ userActions' = userActions + 1
    /\ UNCHANGED <<selectedSKU, reorderQuantity>>
    /\ UNCHANGED <<error, signals, socket, connected, messages, delivered, now,
                   activeTab, metrics, inventory, agents, recentMessages,
                   sustainabilityData, scan>>

\* the Create Reorder button of the dialog: confirmReorder
ConfirmReorder ==
    /\ Idle
    /\ Inputs < MaxInputs
    /\ activeTab = "inventory"
    /\ showReorderModal
    /\ IF selectedSKU # NoSKU /\ reorderQuantity > 0
       THEN LET data == [sku_id |-> selectedSKU, quantity |-> reorderQuantity,
                         priority |-> "high"] IN
            /\ emitted' = sendMessage(socket, connected, emitted,
                                      "create_reorder", data)
            /\ sendCalls' = Append(sendCalls, [event |-> "create_reorder",
                                               data |-> data,
                                               connected |-> connected])
            /\ alerts' = addAlert(alerts, "success",
                                  reorderAlert(selectedSKU, reorderQuantity), now)
            /\ showReorderModal' = FALSE
            /\ effect' = AfterAppRender
       ELSE UNCHANGED <<emitted, sendCalls, alerts, showReorderModal, effect>>
    /\ userActions' = userActions + 1
    /\ UNCHANGED <<selectedSKU, reorderQuantity>>
    /\ UNCHANGED <<error, signals, socket, connected, messages, delivered, now,
                   activeTab, metrics, inventory, agents, recentMessages,
                   sustainabilityData, scan>>

\* React commits the render that the changed dependencies asked for; the
\* message effect of the mounted panel is now pending
Render ==
    /\ socket = "open"
    /\ scan = 0
    /\ effect = "stale"
    /\ effect' = "due"
    /\ UNCHANGED <<dialog, error, signals, socket, connected, messages, delivered, emitted, sendCalls,
                   now, activeTab, alerts, metrics, inventory, agents,
                   recentMessages, sustainabilityData, scan, userActions>>

\* the pending message effect starts: messages.forEach(...)
EffectStart ==
    /\ socket = "open"
    /\ scan = 0
    /\ effect = "due"
    /\ effect' = "idle"
    /\ scan' = IF Len(messages) = 0 THEN 0 ELSE 1
    /\ UNCHANGED <<dialog, error, signals, socket, connected, messages, delivered, emitted, sendCalls,
                   now, activeTab, alerts, metrics, inventory, agents,
                   recentMessages, sustainabilityData, userActions>>

NextScan == IF scan = Len(messages) THEN 0 ELSE scan + 1

\* reading a property of undefined throws a TypeError inside the effect; with no
\* error boundary React unmounts the whole tree, and the cleanup of the mount
\* effect closes the socket
Throw ==
    /\ error' = TRUE
    /\ socket' = "closed"
    /\ scan' = 0

\* Dashboard: the forEach callback on one log entry
DashboardStep ==
    /\ scan > 0
    /\ activeTab = "dashboard"
    /\ LET message == messages[scan] IN
       IF message.type = "optimization_result" /\ message.data = Undefined
       THEN /\ Throw
            /\ UNCHANGED <<metrics, alerts, effect>>
       ELSE /\ metrics' = IF message.type = "system_metrics"
                          THEN mergeMetrics(metrics, message.data)
                          ELSE metrics
            /\ alerts' = IF message.type = "optimization_result"
                         THEN addAlert(alerts, "info",
                                       <<"Optimization completed for",
                                         message.data.sku_id>>,
                                       now)
                         ELSE alerts
            /\ effect' = IF message.type = "optimization_result"
                         THEN "stale" ELSE effect
            /\ scan' = NextScan
            /\ UNCHANGED <<error, socket>>
    /\ UNCHANGED <<dialog, signals, connected, messages, delivered, emitted, sendCalls,
                   now, activeTab, inventory, agents, recentMessages,
                   sustainabilityData, userActions>>

\* a variant of the inventory callback that takes a handled update out of the log
InventoryStep_Consumes ==
    /\ scan > 0
    /\ activeTab = "inventory"
    /\ LET message == messages[scan] IN
       IF message.type = "inventory_update" /\ message.data = Undefined
       THEN /\ Throw
            /\ UNCHANGED <<inventory, alerts, effect, messages>>
       ELSE /\ IF message.type = "inventory_update"
               THEN /\ inventory' = mergeInventory(inventory, message.data)
                    /\ alerts' = addAlert(alerts, "info",
                                          inventoryAlert(message.data), now)
                    /\ effect' = "stale"
                    /\ messages' = <<>>
                    /\ scan' = 0
               ELSE /\ UNCHANGED <<inventory, alerts, effect, messages>>
                    /\ scan' = NextScan
            /\ UNCHANGED <<error, socket>>
    /\ UNCHANGED <<dialog, signals, connected, delivered, emitted, sendCalls,
                   now, activeTab, metrics, agents, recentMessages,
                   sustainabilityData, userActions>>

\* InventoryView: the forEach callback on one log entry
InventoryStep ==
    /\ scan > 0
    /\ activeTab = "inventory"
    /\ LET message == messages[scan] IN
       IF message.type = "inventory_update" /\ message.data = Undefined
       THEN /\ Throw
            /\ UNCHANGED <<inventory, alerts, effect>>
       ELSE /\ IF message.type = "inventory_update"
               THEN /\ inventory' = mergeInventory(inventory, message.data)
                    /\ alerts' = addAlert(alerts, "info",
                                          inventoryAlert(message.data), now)
                    /\ effect' = "stale"
               ELSE UNCHANGED <<inventory, alerts, effect>>
            /\ scan' = NextScan
            /\ UNCHANGED <<error, socket>>
    /\ UNCHANGED <<dialog, signals, connected, messages, delivered, emitted, sendCalls,
                   now, activeTab, metrics, agents, recentMessages,
                   sustainabilityData, userActions>>

\* SustainabilityMetrics: the forEach callback on one log entry
SustainabilityStep ==
    /\ scan > 0
    /\ activeTab = "sustainability"
    /\ LET message == messages[scan] IN
       IF message.type = "sustainability_update"
       THEN /\ sustainabilityData' =
                   mergeSustainability(sustainabilityData, message.data)
            /\ alerts' = addAlert(alerts, "success",
                                  <<"Sustainability metrics updated">>, now)
            /\ effect' = "stale"
       ELSE UNCHANGED <<sustainabilityData, alerts, effect>>
    /\ scan' = NextScan
    /\ UNCHANGED <<dialog, error, signals, socket, connected, messages, delivered,
                   emitted, sendCalls, now, activeTab, metrics, inventory,
                   agents, recentMessages, userActions>>

\* AgentStatus: the forEach callback on one log entry
AgentStep ==
    /\ scan > 0
    /\ activeTab = "agents"
    /\ LET message == messages[scan] IN
       IF message.type = "agent_message" /\ message.data = Undefined
       THEN /\ Throw
            /\ UNCHANGED <<agents, recentMessages, effect>>
       ELSE /\ IF message.type = "agent_message"
                  /\ knownAgent(agents, message.data)
               THEN LET agentKey == toLowerCase(message.data.from_agent) IN
                    /\ bumpProcessed(entryOf(agents, agentKey)) <= MaxProcessed
                    /\ agents' = touchAgent(agents, agentKey, now)
                    /\ recentMessages' =
                           pushRecent(recentMessages, message.data, now)
                    /\ effect' = "stale"
               ELSE UNCHANGED <<agents, recentMessages, effect>>
            /\ scan' = NextScan
            /\ UNCHANGED <<error, socket>>
    /\ UNCHANGED <<dialog, signals, connected, messages, delivered, emitted, sendCalls,
                   now, activeTab, alerts, metrics, inventory,
                   sustainabilityData, userActions>>

\* the ids removeAlert is called with: those on screen and one that is not
DismissIds == AlertIds(alerts) \cup {0}

\* the whole application: every transport callback, user handler and effect
Next ==
    \/ Tick
    \/ OnConnect
    \/ OnDisconnect
    \/ \E kind \in InboundKinds : \E data \in AnyPayload(kind) : OnEvent(kind, data)
    \/ Unmount
    \/ \E tab \in Tabs : SetActiveTab(tab)
    \/ \E id \in DismissIds : RemoveAlert(id)
    \/ \E c \in DashboardCommands : DashboardCommand(c)
    \/ \E skuId \in DOMAIN inventory : HandleReorder(skuId)
    \/ \E q \in Quantities : SetReorderQuantity(q)
    \/ HideReorderModal
    \/ ConfirmReorder
    \/ Render
    \/ EffectStart
    \/ DashboardStep
    \/ InventoryStep
    \/ SustainabilityStep
    \/ AgentStep

Spec == Init /\ [][Next]_vars

\* one payload of each event name
OnePayload(kind) ==
    CASE kind = "inventory_update" -> {LowStockUpdate}
      [] kind = "agent_message" ->
           {d \in Payloads(kind) : d.from_agent = "DEMAND"}
      [] kind = "system_metrics" ->
           {d \in Payloads(kind) : d.serviceLevel = 99}
      [] OTHER -> Payloads(kind)

\* every transport callback, user handler and effect of the application, the
\* server pushing one payload of each event name
NextFrame ==
    \/ Tick
    \/ OnConnect
    \/ OnDisconnect
    \/ \E kind \in InboundKinds : \E data \in OnePayload(kind) : OnEvent(kind, data)
    \/ Unmount
    \/ \E tab \in Tabs : SetActiveTab(tab)
    \/ \E id \in DismissIds : RemoveAlert(id)
    \/ \E c \in DashboardCommands : DashboardCommand(c)
    \/ \E skuId \in DOMAIN inventory : HandleReorder(skuId)
    \/ \E q \in Quantities : SetReorderQuantity(q)
    \/ HideReorderModal
    \/ ConfirmReorder
    \/ Render
    \/ EffectStart
    \/ DashboardStep
    \/ InventoryStep
    \/ SustainabilityStep
    \/ AgentStep

SpecFrame == Init /\ [][NextFrame]_vars

\* the connection manager under the mounted dashboard, no user at the controls
NextLog ==
    \/ Tick
    \/ OnConnect
    \/ OnDisconnect
    \/ \E kind \in InboundKinds : \E data \in Payloads(kind) : OnEvent(kind, data)
    \/ Unmount
    \/ Render
    \/ EffectStart
    \/ DashboardStep

SpecLog == Init /\ [][NextLog]_vars

\* the dashboard's command buttons against a connection that comes and goes
NextSend ==
    \/ Tick
    \/ OnConnect
    \/ OnDisconnect
    \/ \E c \in DashboardCommands : DashboardCommand(c)
    \/ Render
    \/ EffectStart

SpecSend == Init /\ [][NextSend]_vars

\* the alert ring: alerts pushed by the command buttons and by the dashboard's
\* effect for optimization results, alerts dismissed by the user
NextRing ==
    \/ Tick
    \/ OnConnect
    \/ \E data \in Payloads("optimization_result") :
           OnEvent("optimization_result", data)
    \/ \E id \in DismissIds : RemoveAlert(id)
    \/ \E c \in DashboardCommands : DashboardCommand(c)
    \/ Render
    \/ EffectStart
    \/ DashboardStep

SpecRing == Init /\ [][NextRing]_vars

\* the same, with React's scheduler at work: a render that was asked for is
\* committed, a pending effect is run, a running forEach goes on to its end
SpecRingFair ==
    /\ SpecRing
    /\ WF_vars(Render)
    /\ WF_vars(EffectStart)
    /\ WF_vars(DashboardStep)

\* the inventory panel: the user opens it, the server pushes inventory updates
NextInventory ==
    \/ Tick
    \/ OnConnect
    \/ OnDisconnect
    \/ \E data \in Payloads("inventory_update") : OnEvent("inventory_update", data)
    \/ \E tab \in {"dashboard", "inventory"} : SetActiveTab(tab)
    \/ \E skuId \in DOMAIN inventory : HandleReorder(skuId)
    \/ \E q \in Quantities : SetReorderQuantity(q)
    \/ HideReorderModal
    \/ ConfirmReorder
    \/ Render
    \/ EffectStart
    \/ DashboardStep
    \/ InventoryStep

SpecInventory == Init /\ [][NextInventory]_vars

\* the dashboard's metrics: the server pushes system metrics and optimization
\* results
NextMetrics ==
    \/ OnConnect
    \/ \E kind \in {"system_metrics", "optimization_result"} :
           \E data \in Payloads(kind) : OnEvent(kind, data)
    \/ Render
    \/ EffectStart
    \/ DashboardStep

SpecMetrics == Init /\ [][NextMetrics]_vars

\* the agent panel: the user opens it, the server pushes agent messages
NextAgents ==
    \/ Tick
    \/ OnConnect
    \/ \E data \in Payloads("agent_message") : OnEvent("agent_message", data)
    \/ \E tab \in {"dashboard", "agents"} : SetActiveTab(tab)
    \/ Render
    \/ EffectStart
    \/ DashboardStep
    \/ AgentStep

SpecAgents == Init /\ [][NextAgents]_vars

\* the sustainability panel: the user opens it, the server pushes
\* sustainability updates and system metrics
NextSustainability ==
    \/ Tick
    \/ OnConnect
    \/ \E kind \in {"sustainability_update", "system_metrics"} :
           \E data \in Payloads(kind) : OnEvent(kind, data)
    \/ \E tab \in {"dashboard", "sustainability"} : SetActiveTab(tab)
    \/ Render
    \/ EffectStart
    \/ DashboardStep
    \/ SustainabilityStep

SpecSustainability == Init /\ [][NextSustainability]_vars

\* the four panels against a server that also pushes events with no payload
NextPayload ==
    \/ OnConnect
    \/ \E kind \in ListenedKinds : \E data \in AnyPayload(kind) : OnEvent(kind, data)
    \/ \E tab \in Tabs : SetActiveTab(tab)
    \/ Render
    \/ EffectStart
    \/ DashboardStep
    \/ InventoryStep
    \/ SustainabilityStep
    \/ AgentStep

SpecPayload == Init /\ [][NextPayload]_vars

----------------------------------------------------------------------------
(* The event log: claims C1, C2 (SpecLog) *)

KindsOf(log) == [i \in 1..Len(log) |-> log[i].type]

\* C1: after the transport has pushed N events of the five inbound kinds, the
\* log holds exactly N entries and its sequence of kinds is the delivery sequence.
C1_LogMatchesDelivery ==
    /\ Len(messages) = Len(delivered)
    /\ KindsOf(messages) = delivered

\* C2: the log is append-only in delivery order: a step either leaves the log
\* alone or adds one entry {kind, payload, receivedAt} at its end, so every
\* earlier log is a prefix of every later one; and every delivery of a listened
\* kind adds an entry, also when an equal entry is already in the log.
C2_AppendOnly ==
    [][ /\ \/ messages' = messages
           \/ /\ Len(messages') = Len(messages) + 1
              /\ SubSeq(messages', 1, Len(messages)) = messages
              /\ delivered' = Append(delivered, messages'[Len(messages')].type)
              /\ DOMAIN messages'[Len(messages')] = {"type", "data", "timestamp"}
              /\ messages'[Len(messages')].data
                     \in Payloads(messages'[Len(messages')].type)
              /\ messages'[Len(messages')].timestamp = now
        /\ (/\ Len(delivered') = Len(delivered) + 1
            /\ delivered'[Len(delivered')] \in ListenedKinds)
               => Len(messages') = Len(messages) + 1
      ]_vars

\* C2 witness: the same event was delivered twice and is in the log twice
C2_Witness ==
    /\ Len(messages) = 2
    /\ messages[1] = messages[2]
    /\ delivered = <<messages[1].type, messages[1].type>>

----------------------------------------------------------------------------
(* sendMessage: claims C3, C4 (SpecSend) *)

\* the calls that were made while connected, as the transport should see them
RECURSIVE ConnectedCalls(_)
ConnectedCalls(calls) ==
    IF calls = <<>> THEN <<>>
    ELSE (IF Head(calls).connected
          THEN <<[event |-> Head(calls).event, data |-> Head(calls).data]>>
          ELSE <<>>) \o ConnectedCalls(Tail(calls))

\* C3: a sendMessage call made while Disconnected makes no emit call and
\* returns normally (its caller goes on to push its alert); the same holds
\* with no socket at all.
C3_NoEmitWhileDisconnected ==
    /\ [][ (Len(sendCalls') = Len(sendCalls) + 1 /\ ~connected)
              => /\ emitted' = emitted
                 /\ Len(alerts') >= 1
                 /\ alerts'[1].timestamp = now
                 /\ alerts'[1].message \in {c.message : c \in DashboardCommands}
         ]_vars
    /\ [](\A c \in DashboardCommands :
              /\ sendMessage("none", connected, emitted, c.event, c.data) = emitted
              /\ sendMessage(socket, FALSE, emitted, c.event, c.data) = emitted)

\* C3 witness: a command was issued while Disconnected and nothing was emitted
C3_Witness ==
    /\ Len(sendCalls) >= 1
    /\ ~sendCalls[Len(sendCalls)].connected
    /\ emitted = <<>>

\* C4: the transport has seen exactly the commands issued while Connected, once
\* each, with their kind and payload, in order; a command issued while
\* Disconnected is never emitted, also not after the connection is back.
C4_EmitIffConnected == emitted = ConnectedCalls(sendCalls)

\* C4 witness: a command was dropped while Disconnected, the connection came
\* back, and a later command was emitted alone
C4_Witness ==
    /\ Len(sendCalls) = 2
    /\ ~sendCalls[1].connected
    /\ sendCalls[2].connected
    /\ connected
    /\ emitted = <<[event |-> sendCalls[2].event, data |-> sendCalls[2].data]>>

----------------------------------------------------------------------------
(* The alert ring: claims C5 to C9 (SpecRing) *)

\* a step in which the dashboard calls addAlert: a command button, or the
\* effect's callback on an optimization_result entry
DashboardPush ==
    \/ Len(sendCalls') = Len(sendCalls) + 1
    \/ /\ DashboardStep
       /\ messages[scan].type = "optimization_result"

\* the ring is ordered newest first
NewestFirst ==
    \A i \in 1..Len(alerts) : \A j \in 1..Len(alerts) :
        i < j => alerts[i].timestamp >= alerts[j].timestamp

\* C5: the ring never holds more than 10 alerts, and a push on a ring of 10
\* drops exactly its last element, the alert inserted earliest, whatever its
\* severity.
C5_RingBounded ==
    /\ [](Len(alerts) <= 10)
    /\ [](NewestFirst)
    /\ [][ (DashboardPush /\ Len(alerts) = 10)
              => /\ Len(alerts') = 10
                 /\ \A i \in 1..9 : alerts'[i + 1] = alerts[i]
         ]_vars

\* C5 witness: with no dismissal, the ring is full and the initial warning,
\* its oldest entry, was pushed out while info alerts stay
C5_Witness ==
    /\ userActions = 0
    /\ Len(alerts) = 10
    /\ 2 \notin AlertIds(alerts)
    /\ alerts[10].id = 1
    /\ alerts[10].type = "info"

\* C6: addAlert(severity, message) puts an alert with exactly that severity and
\* message at the head and keeps the previous alerts behind it in their order;
\* the ring is ordered newest first.
C6_PushAtHead ==
    /\ [](NewestFirst)
    /\ [][ /\ \A c \in DashboardCommands :
                DashboardCommand(c)
                   => /\ alerts'[1].type = c.type
                      /\ alerts'[1].message = c.message
                      /\ alerts'[1].timestamp = now
           /\ (DashboardStep /\ messages[scan].type = "optimization_result")
                 => /\ alerts'[1].type = "info"
                    /\ alerts'[1].message =
                           <<"Optimization completed for", messages[scan].data.sku_id>>
                    /\ alerts'[1].timestamp = now
           /\ DashboardPush
                 => /\ Len(alerts') = Min(Len(alerts) + 1, 10)
                    /\ \A i \in 2..Len(alerts') : alerts'[i] = alerts[i - 1]
         ]_vars

\* C6 witness: the same message was pushed twice and the ring holds both
C6_Witness ==
    /\ Len(sendCalls) = 2
    /\ sendCalls[1].event = sendCalls[2].event
    /\ Len(alerts) = 4
    /\ alerts[1].message = alerts[2].message
    /\ alerts[3].id = 1

\* C7: no two alerts in the ring have the same id.
C7_UniqueIds ==
    \A i \in 1..Len(alerts) : \A j \in 1..Len(alerts) :
        i # j => alerts[i].id # alerts[j].id

\* the sequence s without its k-th element
Without(s, k) == SubSeq(s, 1, k - 1) \o SubSeq(s, k + 1, Len(s))

\* C8: removeAlert(id), for an id in the ring, removes exactly one alert, one
\* with that id, and leaves the others in their order.
C8_RemovesExactlyOne ==
    [][ \A id \in AlertIds(alerts) :
            RemoveAlert(id)
               => \E k \in 1..Len(alerts) :
                      /\ alerts[k].id = id
                      /\ alerts' = Without(alerts, k)
      ]_vars

\* C9: removeAlert(id), for an id no alert in the ring has, leaves the ring as
\* it is, and so does calling it again.
C9_AbsentIdNoOp ==
    /\ [][ \A id \in DismissIds \ AlertIds(alerts) :
               RemoveAlert(id) => alerts' = alerts
         ]_vars
    /\ [](\A id \in DismissIds \ AlertIds(alerts) :
              removeAlert(removeAlert(alerts, id), id) = alerts)

\* C9 witness: removeAlert ran twice with an absent id and the ring is intact
C9_Witness ==
    /\ userActions = 2
    /\ sendCalls = <<>>
    /\ alerts = InitialAlerts(StartTime)

----------------------------------------------------------------------------
(* The inventory panel: claim C10 (SpecInventory) *)

\* C10: when the inventory panel handles an inventory_update whose sku_id is
\* not in its inventory, it adds an entry for that sku_id whose only field is
\* currentStock, mapping the event's warehouse_id to its current_stock, and it
\* changes no existing entry.
C10_CreatesPartialEntry ==
    [][ (/\ InventoryStep
         /\ messages[scan].type = "inventory_update"
         /\ messages[scan].data.sku_id \notin DOMAIN inventory)
            => LET data == messages[scan].data IN
               /\ DOMAIN inventory' = DOMAIN inventory \cup {data.sku_id}
               /\ DOMAIN inventory'[data.sku_id] = {"currentStock"}
               /\ DOMAIN inventory'[data.sku_id].currentStock = {data.warehouse_id}
               /\ inventory'[data.sku_id].currentStock[data.warehouse_id]
                      = data.current_stock
               /\ \A sku \in DOMAIN inventory : inventory'[sku] = inventory[sku]
      ]_vars

\* C10 witness: the panel holds the partial entry of SKU999 beside the fixture
C10_Witness ==
    /\ activeTab = "inventory"
    /\ scan = 0
    /\ "SKU999" \in DOMAIN inventory
    /\ DOMAIN inventory["SKU999"] = {"currentStock"}
    /\ inventory["SKU999"].currentStock["north"] = 10
    /\ inventory["SKU001"] = sampleInventory["SKU001"]

----------------------------------------------------------------------------
(* The agent panel: claim C11 (SpecAgents) *)

\* C11: when the agent panel handles an agent_message whose from_agent, in
\* lower case, is none of demand, supply, logistics, negotiation, the agents
\* state and the recent communication list stay as they are.
C11_UnknownAgentNoChange ==
    [][ (/\ AgentStep
         /\ messages[scan].type = "agent_message"
         /\ toLowerCase(messages[scan].data.from_agent) \notin AgentKeys)
            => /\ agents' = agents
               /\ recentMessages' = recentMessages
      ]_vars

----------------------------------------------------------------------------
(* The connection: claims C12, C14, C15 (SpecLog), C13 (Spec) *)

\* the connection state the signals received so far should have produced
AfterSignals(sigs) == sigs # <<>> /\ sigs[Len(sigs)] = "connect"

\* C12: the connection state follows the signals (Disconnected at the start,
\* Connected after connect, Disconnected after disconnect), and as long as no
\* message was delivered the log is empty; so connect then disconnect with no
\* delivery goes Disconnected, Connected, Disconnected with an empty log.
C12_ConnectDisconnectRoundTrip ==
    /\ connected = AfterSignals(signals)
    /\ delivered = <<>> => messages = <<>>

\* C12 witness: connect, then disconnect, nothing delivered
C12_Witness ==
    /\ signals = <<"connect", "disconnect">>
    /\ delivered = <<>>
    /\ ~connected
    /\ messages = <<>>

\* C13: the connection state changes only in a step that receives a connect or
\* disconnect signal (so inbound events, commands, alert pushes and dismissals,
\* tab switches and effect steps leave it alone), and a connect signal received
\* while Connected leaves it Connected.
C13_OnlySignalsChangeConnection ==
    [][ /\ signals' = signals => connected' = connected
        /\ (OnConnect /\ connected) => connected'
      ]_vars

\* C13 witness: a second connect signal arrived while Connected, then an event
\* was logged and a command was sent, and the state is still Connected
C13_Witness ==
    /\ signals = <<"connect", "connect">>
    /\ Len(messages) = 1
    /\ Len(sendCalls) = 1
    /\ connected

\* C14: once a disconnect signal was received the connection state is
\* Disconnected for the rest of the session.
C14_NoReconnect ==
    (\E i \in 1..Len(signals) : signals[i] = "disconnect") => ~connected

\* C15: there is one transport, open from the mount on; no step opens another
\* or reopens it; the unmount closes it, and it can do so in either connection
\* state.
C15_OneTransport ==
    /\ [](socket \in {"open", "closed"})
    /\ [](Idle => ENABLED Unmount)
    /\ [][ /\ Unmount => socket' = "closed"
           /\ socket' # socket => (socket = "open" /\ socket' = "closed")
         ]_vars

\* C15 witness: the application was unmounted while Connected
C15_Witness ==
    /\ socket = "closed"
    /\ connected
    /\ Len(messages) >= 1

----------------------------------------------------------------------------
(* The panels and the log: claims C16 (SpecSustainability), C17 (SpecRing), *)
(* C18 (SpecFrame)                                                          *)

\* the positions of the ring that hold an alert with this message
AlertsSaying(message) == {i \in 1..Len(alerts) : alerts[i].message = message}

\* C16: a pushed sustainability_update is appended to the log, and once the
\* mounted sustainability panel has finished its effect after such a push, its
\* display state holds the payload and the ring holds the success alert
\* 'Sustainability metrics updated'.
C16_SustainabilityUpdateHandled ==
    /\ [][ (/\ Len(delivered') = Len(delivered) + 1
             /\ delivered'[Len(delivered')] = "sustainability_update")
               => /\ Len(messages') = Len(messages) + 1
                  /\ messages'[Len(messages')].type = "sustainability_update"
         ]_vars
    /\ []((/\ activeTab = "sustainability"
           /\ scan = 0
           /\ effect = "idle"
           /\ \E i \in 1..Len(delivered) : delivered[i] = "sustainability_update")
              => /\ sustainabilityData.carbonReduction = 15
                 /\ AlertsSaying(<<"Sustainability metrics updated">>) # {})

\* C17: the dashboard, mounted once, has produced at most one alert for each
\* optimization_result in the log, however often the log grew and the
\* application rendered.
C17_OncePerMount ==
    Cardinality(AlertsSaying(<<"Optimization completed for", "SKU001">>))
        <= Cardinality({i \in 1..Len(messages) :
                           messages[i].type = "optimization_result"})

\* C18: the log changes only in a step that delivers an inbound event; tab
\* switches, alert dismissals, command buttons (emitting or not), renders and
\* the effect steps of the four panels leave it as it is.
C18_ViewsLeaveLog ==
    [][ /\ Len(delivered') = Len(delivered) => messages' = messages
        /\ (\/ \E tab \in Tabs : SetActiveTab(tab)
            \/ \E id \in DismissIds : RemoveAlert(id)
            \/ \E c \in DashboardCommands : DashboardCommand(c)
            \/ Render \/ EffectStart
            \/ DashboardStep \/ InventoryStep \/ SustainabilityStep \/ AgentStep)
               => messages' = messages
      ]_vars

\* C18 witness: one event is in the log; since then a command was issued, the
\* user moved to the inventory panel and the panel merged the event
C18_Witness ==
    /\ Len(messages) = 1
    /\ messages[1].type = "inventory_update"
    /\ Len(sendCalls) = 1
    /\ activeTab = "inventory"
    /\ inventory["SKU003"].currentStock["central"] = 0
    /\ AlertsSaying(inventoryAlert(messages[1].data)) # {}

----------------------------------------------------------------------------
(* The command buttons: claim C19 (SpecSend) *)

\* C19: a command button calls sendMessage once with its event name and
\* payload and pushes exactly one alert with its text, Connected or not; while
\* Disconnected nothing is emitted.
C19_CommandAlwaysAlerts ==
    [][ \A c \in DashboardCommands :
            DashboardCommand(c)
               => /\ sendCalls' = Append(sendCalls,
                                         [event |-> c.event, data |-> c.data,
                                          connected |-> connected])
                  /\ Len(alerts') = Min(Len(alerts) + 1, 10)
                  /\ alerts'[1].type = c.type
                  /\ alerts'[1].message = c.message
                  /\ \A i \in 2..Len(alerts') : alerts'[i] = alerts[i - 1]
                  /\ ~connected => emitted' = emitted
                  /\ connected => Len(emitted') = Len(emitted) + 1
      ]_vars

\* C19 witness: each of the three commands was issued once while Disconnected;
\* nothing was emitted and the ring holds the three alerts
C19_Witness ==
    /\ Len(sendCalls) = 3
    /\ \A i \in 1..3 : ~sendCalls[i].connected
    /\ {sendCalls[i].event : i \in 1..3} = {c.event : c \in DashboardCommands}
    /\ emitted = <<>>
    /\ Len(alerts) = 5

----------------------------------------------------------------------------
(* Payload shapes: claim C20 (SpecPayload) *)

\* C20: no effect throws while it handles a logged event, whatever the payload.
C20_NeverThrows == error = FALSE

----------------------------------------------------------------------------
(* Quiescence: claim C21 (SpecRingFair) *)

\* no effect is running, pending or asked for
Quiescent == scan = 0 /\ effect = "idle"

\* C21: once the inputs have ended (the model's inputs always end), the
\* application comes to rest and stays there: no effect runs again.
C21_Quiescence == <>[]Quiescent

----------------------------------------------------------------------------
(* The agent panel: claims C22, C26 (SpecAgents) *)

\* the agent_message entries of the log sent by this agent
MessagesFrom(key) ==
    {i \in 1..Len(messages) :
        /\ messages[i].type = "agent_message"
        /\ messages[i].data # Undefined
        /\ toLowerCase(messages[i].data.from_agent) = key}

\* C22: each time the agent panel handles an agent_message of a known agent,
\* that agent's messagesProcessed goes up by 1, its lastActivity is the
\* current time, its other fields and the other agents stay, and one entry is
\* put at the head of the recent list; and since its mount the panel has
\* counted each such message of the log once.
C22_CountsEachMessageOnce ==
    /\ [][ (/\ AgentStep
             /\ messages[scan].type = "agent_message"
             /\ messages[scan].data # Undefined
             /\ toLowerCase(messages[scan].data.from_agent) \in AgentKeys)
               => LET key == toLowerCase(messages[scan].data.from_agent) IN
                  /\ DOMAIN agents' = DOMAIN agents
                  /\ \A k \in DOMAIN agents \ {key} : agents'[k] = agents[k]
                  /\ "messagesProcessed" \in DOMAIN agents[key]
                  /\ DOMAIN agents'[key] = DOMAIN agents[key]
                  /\ agents'[key].messagesProcessed
                         = agents[key].messagesProcessed + 1
                  /\ agents'[key].lastActivity = now
                  /\ \A f \in DOMAIN agents[key] \ {"messagesProcessed", "lastActivity"} :
                         agents'[key][f] = agents[key][f]
                  /\ Len(recentMessages') = Min(Len(recentMessages) + 1, 10)
                  /\ recentMessages'[1].from = messages[scan].data.from_agent
         ]_vars
    /\ [](activeTab = "agents"
             => /\ agents.demand.messagesProcessed
                    <= InitialAgents(now).demand.messagesProcessed
                         + Cardinality(MessagesFrom("demand"))
                /\ Len(recentMessages)
                    <= Len(InitialRecentMessages(now))
                         + Cardinality(UNION {MessagesFrom(k) : k \in AgentKeys}))

----------------------------------------------------------------------------
(* The inventory panel: claims C23, C24, C27 (SpecInventory) *)

\* C23: when the inventory panel handles an inventory_update for a SKU it
\* holds, the SKU's currentStock for the event's warehouse becomes the event's
\* current_stock; the SKU's other fields, its stock in the other warehouses
\* and every other SKU stay as they are.
C23_KnownSkuOnlyStockChanges ==
    [][ (/\ InventoryStep
         /\ messages[scan].type = "inventory_update"
         /\ messages[scan].data # Undefined
         /\ messages[scan].data.sku_id \in DOMAIN inventory)
            => LET data == messages[scan].data
                   old == inventory[data.sku_id]
                   new == inventory'[data.sku_id]
               IN
               /\ DOMAIN inventory' = DOMAIN inventory
               /\ \A sku \in DOMAIN inventory \ {data.sku_id} :
                      inventory'[sku] = inventory[sku]
               /\ DOMAIN new = DOMAIN old
               /\ \A f \in DOMAIN old \ {"currentStock"} : new[f] = old[f]
               /\ DOMAIN new.currentStock
                      = DOMAIN old.currentStock \cup {data.warehouse_id}
               /\ new.currentStock[data.warehouse_id] = data.current_stock
               /\ \A w \in DOMAIN old.currentStock \ {data.warehouse_id} :
                      new.currentStock[w] = old.currentStock[w]
      ]_vars

\* C23 witness: SKU001 has its new stock in the north warehouse and is
\* otherwise the fixture's SKU001
C23_Witness ==
    /\ activeTab = "inventory"
    /\ "SKU001" \in DOMAIN inventory
    /\ inventory["SKU001"].currentStock["north"] = 20
    /\ inventory["SKU001"] =
           [sampleInventory["SKU001"] EXCEPT !.currentStock["north"] = 20]
    /\ inventory["SKU002"] = sampleInventory["SKU002"]

\* the inventory_update entries of the log for this SKU and warehouse
UpdatesOf(log, sku, w) ==
    {i \in 1..Len(log) :
        /\ log[i].type = "inventory_update"
        /\ log[i].data # Undefined
        /\ log[i].data.sku_id = sku
        /\ log[i].data.warehouse_id = w}

\* the stock of the last update of the log for this SKU and warehouse
LastStock(log, sku, w) ==
    LET last == CHOOSE i \in UpdatesOf(log, sku, w) :
                    \A j \in UpdatesOf(log, sku, w) : j <= i
    IN log[last].data.current_stock

\* the fixture overlaid with the inventory updates of the log, the last update
\* of a SKU and warehouse winning
Overlay(log) ==
    LET skus == {d.sku_id : d \in Payloads("inventory_update")}
        whs == {d.warehouse_id : d \in Payloads("inventory_update")}
        updated == {sku \in skus : \E w \in whs : UpdatesOf(log, sku, w) # {}}
    IN [sku \in (DOMAIN sampleInventory) \cup updated |->
          IF sku \notin updated THEN sampleInventory[sku]
          ELSE LET fixture == IF sku \in DOMAIN sampleInventory
                              THEN sampleInventory[sku].currentStock
                              ELSE EmptyObj
                   ws == (DOMAIN fixture)
                            \cup {w \in whs : UpdatesOf(log, sku, w) # {}}
                   stock == [w \in ws |->
                               IF UpdatesOf(log, sku, w) # {}
                               THEN LastStock(log, sku, w)
                               ELSE fixture[w]]
               IN IF sku \in DOMAIN sampleInventory
                  THEN [sampleInventory[sku] EXCEPT !.currentStock = stock]
                  ELSE [currentStock |-> stock]]

\* C24: whenever the mounted inventory panel has gone through the log (its
\* effect has ended a walk, or rests with nothing to do), its inventory is the
\* fixture overlaid with the inventory updates of the whole log in log order,
\* whether they were delivered before or after the panel was mounted.
C24_InventoryIsOverlayOfLog ==
    /\ []((activeTab = "inventory" /\ scan = 0 /\ effect = "idle" /\ ~error)
             => inventory = Overlay(messages))
    /\ [][ (InventoryStep /\ scan' = 0 /\ ~error')
              => inventory' = Overlay(messages)
         ]_vars

\* C24 witness: two updates of one stock were delivered while the dashboard
\* was up or after; the panel was opened once and shows the later one
C24_Witness ==
    /\ activeTab = "inventory"
    /\ userActions = 1
    /\ scan = 0
    /\ Len(messages) = 2
    /\ messages[1].data = [sku_id |-> "SKU001", warehouse_id |-> "north",
                           current_stock |-> 20]
    /\ messages[2].data = [sku_id |-> "SKU001", warehouse_id |-> "north",
                           current_stock |-> 10]
    /\ inventory = Overlay(messages)
    /\ inventory["SKU001"].currentStock["north"] = 10

----------------------------------------------------------------------------
(* The dashboard's metrics: claim C25 (SpecMetrics) *)

\* the system_metrics entries of the log that carry this field
MetricsWith(log, f) ==
    {i \in 1..Len(log) :
        /\ log[i].type = "system_metrics"
        /\ log[i].data # Undefined
        /\ f \in DOMAIN log[i].data}

\* the initial metrics, each field replaced by its last value in the log
MetricsOverlay(log) ==
    [f \in DOMAIN InitialMetrics |->
        IF MetricsWith(log, f) = {} THEN InitialMetrics[f]
        ELSE LET last == CHOOSE i \in MetricsWith(log, f) :
                             \A j \in MetricsWith(log, f) : j <= i
             IN log[last].data[f]]

\* C25: at the end of every walk of the dashboard's effect through the log,
\* the first and every later one, the metrics are the initial metrics
\* overlaid field by field with the system_metrics payloads in log order.
C25_RescanIdempotent ==
    /\ []((activeTab = "dashboard" /\ scan = 0 /\ effect = "idle" /\ ~error)
             => metrics = MetricsOverlay(messages))
    /\ [][ (DashboardStep /\ scan' = 0 /\ ~error')
              => metrics' = MetricsOverlay(messages)
         ]_vars

\* C25 witness: the log holds two system_metrics and an optimization_result,
\* the effect has walked it at least twice (two alerts for one result), and
\* the metrics show the later figure
C25_Witness ==
    /\ scan = 0
    /\ Len(messages) = 3
    /\ messages[1].type = "system_metrics" /\ messages[1].data.serviceLevel = 99
    /\ messages[2].type = "system_metrics" /\ messages[2].data.serviceLevel = 97
    /\ messages[3].type = "optimization_result"
    /\ Cardinality(AlertsSaying(<<"Optimization completed for", "SKU001">>)) >= 2
    /\ metrics.serviceLevel = 97
    /\ metrics = MetricsOverlay(messages)

----------------------------------------------------------------------------
(* The recent communication list: claim C26 (SpecAgents) *)

\* C26: the recent list never holds more than 10 entries; a step that accepts
\* an agent_message puts its entry at the head and keeps the previous entries
\* behind it in their order, dropping the last one when the list was full.
C26_RecentBounded ==
    /\ [](Len(recentMessages) <= 10)
    /\ [][ (/\ AgentStep
             /\ messages[scan].type = "agent_message"
             /\ messages[scan].data # Undefined
             /\ knownAgent(agents, messages[scan].data))
               => LET data == messages[scan].data IN
                  /\ Len(recentMessages') = Min(Len(recentMessages) + 1, 10)
                  /\ recentMessages'[1].from = data.from_agent
                  /\ recentMessages'[1].to = data.to_agent
                  /\ recentMessages'[1].type = data.message_type
                  /\ recentMessages'[1].timestamp = now
                  /\ \A i \in 2..Len(recentMessages') :
                         recentMessages'[i] = recentMessages[i - 1]
         ]_vars

\* C26 witness: the list is full, and of the four initial entries the oldest
\* has been dropped while the next oldest is at the tail
C26_Witness ==
    /\ activeTab = "agents"
    /\ Len(recentMessages) = 10
    /\ recentMessages[10].type = "logistics_request"
    /\ recentMessages[7].from = "SUPPLY"

----------------------------------------------------------------------------
(* The reorder dialog: claim C27 (SpecInventory) *)

\* C27: confirmReorder, with a SKU selected and a quantity above 0, calls
\* sendMessage once with create_reorder {sku_id, quantity, priority 'high'},
\* pushes one success alert and closes the dialog; otherwise it sends nothing,
\* pushes no alert and leaves the dialog open.  handleReorder selects the SKU,
\* presets the quantity to twice the SKU's minStock and opens the dialog.
C27_ConfirmReorderGuarded ==
    [][ /\ ConfirmReorder
           => IF selectedSKU # NoSKU /\ reorderQuantity > 0
              THEN /\ sendCalls' =
                         Append(sendCalls,
                                [event |-> "create_reorder",
                                 data |-> [sku_id |-> selectedSKU,
                                           quantity |-> reorderQuantity,
                                           priority |-> "high"],
                                 connected |-> connected])
                   /\ connected => emitted' =
                         Append(emitted,
                                [event |-> "create_reorder",
                                 data |-> [sku_id |-> selectedSKU,
                                           quantity |-> reorderQuantity,
                                           priority |-> "high"]])
                   /\ ~connected => emitted' = emitted
                   /\ Len(alerts') = Min(Len(alerts) + 1, 10)
                   /\ alerts'[1].type = "success"
                   /\ alerts'[1].message = reorderAlert(selectedSKU, reorderQuantity)
                   /\ \A i \in 2..Len(alerts') : alerts'[i] = alerts[i - 1]
                   /\ ~showReorderModal'
              ELSE /\ sendCalls' = sendCalls
                   /\ emitted' = emitted
                   /\ alerts' = alerts
                   /\ showReorderModal'
        /\ \A skuId \in DOMAIN inventory :
              HandleReorder(skuId)
                 => /\ selectedSKU' = skuId
                    /\ reorderQuantity' = 2 * inventory[skuId].minStock
                    /\ showReorderModal'
      ]_vars

\* C27 witness: the dialog was opened for SKU003 with the preset of 10 and
\* confirmed while Connected: the command is out, the alert is up, the dialog
\* is closed
C27_Witness ==
    /\ activeTab = "inventory"
    /\ ~showReorderModal
    /\ selectedSKU = "SKU003"
    /\ reorderQuantity = 10
    /\ emitted = <<[event |-> "create_reorder",
                    data |-> [sku_id |-> "SKU003", quantity |-> 10,
                              priority |-> "high"]]>>
    /\ AlertsSaying(reorderAlert("SKU003", 10)) # {}

====
